---- MODULE Spec2Model ----
(***************************************************************************)
(* A model of github_search.py: a command-line client that issues one      *)
(* HTTP GET to the GitHub repository search API and prints one page of     *)
(* results.                                                                *)
(*                                                                         *)
(* Spec   models one invocation of main(): argument validation, the GET,   *)
(*        the parse of the JSON body, the header, the per-item rendering   *)
(*        loop and the next-page hint.  Python values are tagged records   *)
(*        so that len() of None and None.get() raise as they do in Python. *)
(* SpecFn applies the two pure computations of the program, truncate_text  *)
(*        and the pagination arithmetic, to inputs drawn from bounded sets.*)
(***************************************************************************)
EXTENDS Integers, Sequences, FiniteSets

VARIABLES
    pc,            \* position of the run: "main", "request", "parse", "loop", "exited"; "fn" in SpecFn
    args,          \* argparse's result: [query |-> sequence of tokens, page |-> integer]
    requests,      \* the HTTP GETs issued so far, in order
    response,      \* outcome of requests.get + raise_for_status
    repos,         \* local of search_github_repos: the item list
    total_count,   \* local of search_github_repos
    total_pages,   \* local of search_github_repos
    idx,           \* position of the for loop in repos (1-based)
    out,           \* the lines printed so far
    exit_status,   \* the process's exit status, meaningful when pc = "exited"
    raised,        \* the exception that ended the run unhandled, or "none"
    call,          \* SpecFn: the function call under test
    result         \* SpecFn: what the call returned

vars == <<pc, args, requests, response, repos, total_count, total_pages, idx,
          out, exit_status, raised, call, result>>

-----------------------------------------------------------------------------
(* Bounds of the model. *)

\* the longest text handed to truncate_text in SpecFn
MaxTextLen == 150
\* the largest total count and page size of the pagination arithmetic in SpecFn
MaxTotal == 100
MaxPerPage == 11
\* the largest --page value and the longest item list of a response in Spec
MaxPage == 3
MaxItems == 2

-----------------------------------------------------------------------------
(* Python and JSON values. *)

None == [t |-> "null"]
Str(s) == [t |-> "str", v |-> s]
Num(n) == [t |-> "int", v |-> n]
List(s) == [t |-> "list", v |-> s]
Dict(d) == [t |-> "dict", v |-> d]
EmptyDict == [k \in {} |-> None]

\* dict.get(key, default): the default only when the key is absent; a key
\* present with a null value yields None.
Get(d, key, default) == IF key \in DOMAIN d THEN d[key] ELSE default

Min(a, b) == IF a <= b THEN a ELSE b

\* a text of n characters whose i-th character depends on i
CharAt(i) == SubSeq("abcdefg", (i % 7) + 1, (i % 7) + 1)

RECURSIVE TextBetween(_, _)
TextBetween(i, j) ==
    IF i > j THEN ""
    ELSE IF i = j THEN CharAt(i)
    ELSE LET m == (i + j) \div 2
         IN  TextBetween(i, m) \o TextBetween(m + 1, j)

Text(n) == TextBetween(1, n)

-----------------------------------------------------------------------------
(* Program constants. *)

GITHUB_API_URL == "https://api.github.com/search/repositories"
max_length_arg == 100
per_page_default == 10
request_timeout == 10
NA == Str("N/A")
\* the source's placeholder is the Chinese for "no description"
NoDescription == Str("no description")
Ellipsis == "..."

-----------------------------------------------------------------------------
(* truncate_text *)

truncate_text_AtLimit(text, max_length) ==
    IF text.t # "str" THEN [raises |-> "TypeError"]
    ELSE IF Len(text.v) >= max_length
         THEN [raises |-> "none", value |-> Str(SubSeq(text.v, 1, max_length) \o Ellipsis)]
         ELSE [raises |-> "none", value |-> text]

\* len(text) raises TypeError when text is None
truncate_text(text, max_length) ==
    IF text.t # "str" THEN [raises |-> "TypeError"]
    ELSE IF Len(text.v) > max_length
         THEN [raises |-> "none", value |-> Str(SubSeq(text.v, 1, max_length) \o Ellipsis)]
         ELSE [raises |-> "none", value |-> text]

-----------------------------------------------------------------------------
(* Pagination arithmetic of search_github_repos. *)

TotalPages_Floor(total, per_page) == total \div per_page

TotalPages(total, per_page) == (total + per_page - 1) \div per_page

StartIndex_ZeroBased(page, per_page) == (page - 1) * per_page

StartIndex(page, per_page) == (page - 1) * per_page + 1

EndIndex(page, per_page, total) == Min(page * per_page, total)

-----------------------------------------------------------------------------
(* Inputs of a run: the command line and what the remote service answers. *)

\* the two usages of the module docstring
Queries == {<<"python">>, <<"python", "machine", "learning">>}
Pages == -1 .. MaxPage

ItemKeys == {"full_name", "description", "stargazers_count", "html_url", "owner"}

Without(d, key) == [k \in DOMAIN d \ {key} |-> d[k]]
With(d, key, value) == [k \in DOMAIN d \cup {key} |-> IF k = key THEN value ELSE d[k]]

CompleteItem ==
    [full_name |-> Str("octocat/hello"),
     description |-> Str(Text(3)),
     stargazers_count |-> Num(42),
     html_url |-> Str("https://github.com/octocat/hello"),
     owner |-> Dict([login |-> Str("octocat")])]

\* an item with every field, with no field, with one field absent, with
\* neither description nor owner, and with the description or the owner (or
\* both) in each shape the API gives it: absent, null, proper
ItemPool ==
    {CompleteItem, EmptyDict}
    \cup {Without(CompleteItem, k) : k \in ItemKeys}
    \cup {With(CompleteItem, "description", d) :
              d \in {None, Str(Text(max_length_arg)), Str(Text(max_length_arg + 1))}}
    \cup {With(CompleteItem, "owner", o) : o \in {None, Dict(EmptyDict)}}
    \cup {Without(Without(CompleteItem, "description"), "owner"),
          With(EmptyDict, "description", None),
          With(With(CompleteItem, "description", None), "owner", None)}

ItemLists == UNION {[1 .. n -> ItemPool] : n \in 0 .. MaxItems}

TotalCounts == {0, 1, 2, 10, 11, 25}

ResponseBodies ==
    {EmptyDict}
    \cup {[total_count |-> Num(t)] : t \in TotalCounts}
    \cup {[items |-> List(l)] : l \in ItemLists}
    \cup {[total_count |-> Num(t), items |-> List(l)] : t \in TotalCounts, l \in ItemLists}

RequestErrors == {"ConnectionError", "Timeout", "HTTPError"}

-----------------------------------------------------------------------------
(* Output lines. *)

Rule == [kind |-> "rule"]

RECURSIVE Join(_)
\* ' '.join(tokens)
Join(tokens) ==
    IF Len(tokens) = 0 THEN ""
    ELSE IF Len(tokens) = 1 THEN tokens[1]
    ELSE tokens[1] \o " " \o Join(Tail(tokens))

-----------------------------------------------------------------------------
(* main *)

PageInvalid_Negative(page) == page < 0

PageInvalid(page) == page < 1

main_InvalidPage ==
    /\ pc = "main"
    /\ PageInvalid(args.page)
    /\ out' = Append(out, [kind |-> "page_error"])
    /\ pc' = "exited"
    /\ exit_status' = 1
    /\ UNCHANGED <<args, requests, response, repos, total_count, total_pages, idx,
                   raised, call, result>>

main_Search ==
    /\ pc = "main"
    /\ ~PageInvalid(args.page)
    /\ out' = Append(out, [kind |-> "searching", query |-> Join(args.query)])
    /\ pc' = "request"
    /\ UNCHANGED <<args, requests, response, repos, total_count, total_pages, idx,
                   exit_status, raised, call, result>>

-----------------------------------------------------------------------------
(* search_github_repos *)

Request(query, page, per_page) ==
    [url |-> GITHUB_API_URL,
     params |-> [q |-> query, sort |-> "stars", order |-> "desc",
                 page |-> page, per_page |-> per_page],
     headers |-> [Accept |-> "application/vnd.github.v3+json",
                  UserAgent |-> "GitHub-Search-CLI"],
     timeout |-> request_timeout]

search_RequestFailed_Retry ==
    /\ pc = "request"
    /\ \E e \in RequestErrors :
          response' = [status |-> "failed", error |-> e]
    /\ requests' = Append(requests, Request(Join(args.query), args.page, per_page_default))
    /\ out' = Append(out, [kind |-> "request_failed"])
    /\ UNCHANGED <<pc, args, repos, total_count, total_pages, idx, exit_status, raised,
                   call, result>>

\* requests.get or raise_for_status raises a RequestException
search_RequestFailed ==
    /\ pc = "request"
    /\ \E e \in RequestErrors :
          response' = [status |-> "failed", error |-> e]
    /\ requests' = Append(requests, Request(Join(args.query), args.page, per_page_default))
    /\ out' = Append(out, [kind |-> "request_failed"])
    /\ pc' = "exited"
    /\ exit_status' = 1
    /\ UNCHANGED <<args, repos, total_count, total_pages, idx, raised, call, result>>

search_RequestOk ==
    /\ pc = "request"
    /\ \E data \in ResponseBodies :
          response' = [status |-> "ok", data |-> data]
    /\ requests' = Append(requests, Request(Join(args.query), args.page, per_page_default))
    /\ pc' = "parse"
    /\ UNCHANGED <<args, repos, total_count, total_pages, idx, out, exit_status,
                   raised, call, result>>

\* data.get('items', []), data.get('total_count', 0) and the ceiling division
Parsed(data, per_page) ==
    LET items == Get(data, "items", List(<<>>))
        total == Get(data, "total_count", Num(0))
    IN  [repos |-> items.v,
         total_count |-> total.v,
         total_pages |-> TotalPages(total.v, per_page)]

search_NoResults_FallsThrough ==
    /\ pc = "parse"
    /\ LET p == Parsed(response.data, per_page_default)
       IN  /\ Len(p.repos) = 0
           /\ repos' = p.repos
           /\ total_count' = p.total_count
           /\ total_pages' = p.total_pages
           /\ out' = out \o <<[kind |-> "no_results"],
                              [kind |-> "header",
                               total_count |-> p.total_count,
                               start_index |-> StartIndex(args.page, per_page_default),
                               end_index |-> EndIndex(args.page, per_page_default, p.total_count),
                               total_pages |-> p.total_pages,
                               page |-> args.page],
                              Rule>>
    /\ idx' = 1
    /\ pc' = "loop"
    /\ UNCHANGED <<args, requests, response, exit_status, raised, call, result>>

search_NoResults ==
    /\ pc = "parse"
    /\ LET p == Parsed(response.data, per_page_default)
       IN  /\ Len(p.repos) = 0
           /\ repos' = p.repos
           /\ total_count' = p.total_count
           /\ total_pages' = p.total_pages
    /\ out' = Append(out, [kind |-> "no_results"])
    /\ pc' = "exited"
    /\ exit_status' = 0
    /\ UNCHANGED <<args, requests, response, idx, raised, call, result>>

Header(page, per_page, total, pages) ==
    [kind |-> "header",
     total_count |-> total,
     start_index |-> StartIndex(page, per_page),
     end_index |-> EndIndex(page, per_page, total),
     total_pages |-> pages,
     page |-> page]

search_Header ==
    /\ pc = "parse"
    /\ LET p == Parsed(response.data, per_page_default)
       IN  /\ Len(p.repos) > 0
           /\ repos' = p.repos
           /\ total_count' = p.total_count
           /\ total_pages' = p.total_pages
           /\ out' = out \o <<Header(args.page, per_page_default, p.total_count, p.total_pages),
                              Rule>>
    /\ idx' = 1
    /\ pc' = "loop"
    /\ UNCHANGED <<args, requests, response, exit_status, raised, call, result>>

RenderItem_OwnerDefaultNone(repo) ==
    LET name == Get(repo, "full_name", NA)
        description == truncate_text(Get(repo, "description", NoDescription), max_length_arg)
        stars == Get(repo, "stargazers_count", Num(0))
        html_url == Get(repo, "html_url", NA)
        owner == Get(repo, "owner", None)
    IN  IF description.raises # "none" THEN [raises |-> description.raises]
        ELSE IF owner.t # "dict" THEN [raises |-> "AttributeError"]
        ELSE [raises |-> "none",
              block |-> [kind |-> "item",
                         name |-> name,
                         owner |-> Get(owner.v, "login", NA),
                         stars |-> stars,
                         description |-> description.value,
                         url |-> html_url]]

\* the body of the for loop up to its first print: the five lookups in the
\* order of the source; None.get raises AttributeError
RenderItem(repo) ==
    LET name == Get(repo, "full_name", NA)
        description == truncate_text(Get(repo, "description", NoDescription), max_length_arg)
        stars == Get(repo, "stargazers_count", Num(0))
        html_url == Get(repo, "html_url", NA)
        owner == Get(repo, "owner", Dict(EmptyDict))
    IN  IF description.raises # "none" THEN [raises |-> description.raises]
        ELSE IF owner.t # "dict" THEN [raises |-> "AttributeError"]
        ELSE [raises |-> "none",
              block |-> [kind |-> "item",
                         name |-> name,
                         owner |-> Get(owner.v, "login", NA),
                         stars |-> stars,
                         description |-> description.value,
                         url |-> html_url]]

search_RenderItem ==
    /\ pc = "loop"
    /\ idx <= Len(repos)
    /\ LET r == RenderItem(repos[idx])
       IN  /\ r.raises = "none"
           /\ out' = out \o <<r.block, Rule>>
    /\ idx' = idx + 1
    /\ UNCHANGED <<pc, args, requests, response, repos, total_count, total_pages,
                   exit_status, raised, call, result>>

\* an exception nothing catches: the interpreter prints a traceback and the
\* process ends with status 1
search_RenderItemRaises ==
    /\ pc = "loop"
    /\ idx <= Len(repos)
    /\ LET r == RenderItem(repos[idx])
       IN  /\ r.raises # "none"
           /\ raised' = r.raises
    /\ pc' = "exited"
    /\ exit_status' = 1
    /\ UNCHANGED <<args, requests, response, repos, total_count, total_pages, idx,
                   out, call, result>>

HintDue_OrLast(page, pages) == page <= pages

HintDue(page, pages) == page < pages

search_Return ==
    /\ pc = "loop"
    /\ idx > Len(repos)
    /\ out' = IF HintDue(args.page, total_pages)
              THEN Append(out, [kind |-> "hint", next |-> args.page + 1])
              ELSE out
    /\ pc' = "exited"
    /\ exit_status' = 0
    /\ UNCHANGED <<args, requests, response, repos, total_count, total_pages, idx,
                   raised, call, result>>

-----------------------------------------------------------------------------
(* One invocation of the program. *)

NoCall == [fn |-> "none"]

Init ==
    /\ pc = "main"
    /\ args \in [query : Queries, page : Pages]
    /\ requests = <<>>
    /\ response = [status |-> "none"]
    /\ repos = <<>>
    /\ total_count = 0
    /\ total_pages = 0
    /\ idx = 0
    /\ out = <<>>
    /\ exit_status = 0
    /\ raised = "none"
    /\ call = NoCall
    /\ result = NoCall

Next ==
    \/ main_InvalidPage
    \/ main_Search
    \/ search_RequestFailed
    \/ search_RequestOk
    \/ search_NoResults
    \/ search_Header
    \/ search_RenderItem
    \/ search_RenderItemRaises
    \/ search_Return

Spec == Init /\ [][Next]_vars

-----------------------------------------------------------------------------
(* The pure computations applied to inputs drawn from bounded sets. *)

FnCalls ==
    {[fn |-> "truncate_text", text |-> Str(Text(n)), max_length |-> max_length_arg] :
        n \in 0 .. MaxTextLen}
    \cup {[fn |-> "paging", page |-> p, per_page |-> s, total |-> t] :
        p \in 1 .. MaxPage, s \in 1 .. MaxPerPage, t \in 0 .. MaxTotal}

InitFn ==
    /\ pc = "fn"
    /\ call \in FnCalls
    /\ result = NoCall
    /\ args = [query |-> <<>>, page |-> 1]
    /\ requests = <<>>
    /\ response = [status |-> "none"]
    /\ repos = <<>>
    /\ total_count = 0
    /\ total_pages = 0
    /\ idx = 0
    /\ out = <<>>
    /\ exit_status = 0
    /\ raised = "none"

fn_truncate_text ==
    /\ pc = "fn"
    /\ call.fn = "truncate_text"
    /\ result = NoCall
    /\ result' = [fn |-> "truncate_text", ret |-> truncate_text(call.text, call.max_length)]
    /\ UNCHANGED <<pc, args, requests, response, repos, total_count, total_pages, idx,
                   out, exit_status, raised, call>>

fn_paging ==
    /\ pc = "fn"
    /\ call.fn = "paging"
    /\ result = NoCall
    /\ result' = [fn |-> "paging",
                  total_pages |-> TotalPages(call.total, call.per_page),
                  start_index |-> StartIndex(call.page, call.per_page),
                  end_index |-> EndIndex(call.page, call.per_page, call.total)]
    /\ UNCHANGED <<pc, args, requests, response, repos, total_count, total_pages, idx,
                   out, exit_status, raised, call>>

NextFn ==
    \/ fn_truncate_text
    \/ fn_paging

SpecFn == InitFn /\ [][NextFn]_vars

-----------------------------------------------------------------------------
(* Properties. *)

\* the lines of one kind printed so far, in order
Lines(kind) == SelectSeq(out, LAMBDA l : l.kind = kind)
Printed(kind) == Len(Lines(kind)) > 0
ResponseItems == Get(response.data, "items", List(<<>>)).v
ItemBlocks == Lines("item")
NoNullField(item) == \A k \in DOMAIN item : item[k].t # "null"

\* C1: a run whose --page value is below 1 prints the usage error and ends
\* with a non-zero exit status without ever issuing an HTTP GET.
C1_InvalidPageRejected ==
    args.page < 1 =>
        /\ requests = <<>>
        /\ pc # "main" =>
              /\ pc = "exited"
              /\ exit_status # 0
              /\ out = <<[kind |-> "page_error"]>>

C1_Witness ==
    /\ args.page = 0
    /\ Len(args.query) = 3
    /\ pc = "exited"

\* C2: no run issues more than one HTTP GET, and a failed GET ends the run
\* with the error message and exit status 1, with no header, item block,
\* no-results message or hint printed.
C2_FailedRequestIsFatal ==
    /\ Len(requests) <= 1
    /\ response.status = "failed" =>
          /\ pc = "exited"
          /\ exit_status = 1
          /\ raised = "none"
          /\ Len(Lines("request_failed")) = 1
          /\ ~Printed("header")
          /\ ~Printed("item")
          /\ ~Printed("no_results")
          /\ ~Printed("hint")

C2_Witness ==
    /\ response.status = "failed"
    /\ response.error = "Timeout"
    /\ Len(requests) = 1
    /\ pc = "exited"

\* C3: once a successful response with an empty item list has been parsed,
\* the run has printed the no-results message and ended with exit status 0,
\* with no header, item block or hint, whatever total_count and page are.
C3_EmptyItemsNoResults ==
    (response.status = "ok" /\ pc # "parse" /\ Len(ResponseItems) = 0) =>
        /\ pc = "exited"
        /\ exit_status = 0
        /\ raised = "none"
        /\ Len(Lines("no_results")) = 1
        /\ ~Printed("header")
        /\ ~Printed("item")
        /\ ~Printed("hint")

C3_Witness ==
    /\ response.status = "ok"
    /\ response.data = [total_count |-> Num(25), items |-> List(<<>>)]
    /\ args.page = 1
    /\ pc = "exited"

\* C4: when fields of the response or of its items are absent (and none is
\* null), nothing is raised, every block printed shows the placeholder of
\* each absent field, and the run ends with exit status 0 with one block
\* per item.
C4_AbsentFieldsRenderPlaceholders ==
    (response.status = "ok" /\ \A i \in 1 .. Len(ResponseItems) : NoNullField(ResponseItems[i])) =>
        /\ raised = "none"
        /\ pc = "exited" =>
              /\ exit_status = 0
              /\ Len(ItemBlocks) = Len(ResponseItems)
        /\ \A i \in 1 .. Len(ItemBlocks) :
              LET item == ResponseItems[i]
                  block == ItemBlocks[i]
              IN  /\ "full_name" \notin DOMAIN item => block.name = NA
                  /\ "description" \notin DOMAIN item => block.description = NoDescription
                  /\ "stargazers_count" \notin DOMAIN item => block.stars = Num(0)
                  /\ "html_url" \notin DOMAIN item => block.url = NA
                  /\ "owner" \notin DOMAIN item => block.owner = NA
                  /\ ("owner" \in DOMAIN item /\ "login" \notin DOMAIN item.owner.v) =>
                        block.owner = NA

C4_Witness ==
    /\ response.status = "ok"
    /\ response.data = [items |-> List(<<EmptyDict, With(CompleteItem, "owner", Dict(EmptyDict))>>)]
    /\ Len(ItemBlocks) = 2
    /\ pc = "exited"

\* C5: the total_pages computed for total count t and page size p > 0 is the
\* least n with n * p >= t.
C5_TotalPagesIsCeiling ==
    result.fn = "paging" =>
        /\ result.total_pages * call.per_page >= call.total
        /\ \A n \in 0 .. call.total : n * call.per_page >= call.total => n >= result.total_pages
        /\ call.total = 0 => result.total_pages = 0
        /\ (call.total = 10 /\ call.per_page = 10) => result.total_pages = 1
        /\ (call.total = 11 /\ call.per_page = 10) => result.total_pages = 2
        /\ (call.total = 100 /\ call.per_page = 10) => result.total_pages = 10

C5_Witness ==
    /\ result.fn = "paging"
    /\ call.total = 11
    /\ call.per_page = 10
    /\ result.total_pages = 2

\* C6: truncate_text(text, 100) returns a text of at most 100 characters
\* unchanged, and otherwise its first 100 characters followed by "...".
C6_TruncateText ==
    result.fn = "truncate_text" =>
        LET text == call.text.v
            ret == result.ret
        IN  /\ ret.raises = "none"
            /\ ret.value.t = "str"
            /\ Len(ret.value.v) <= 100 + 3
            /\ Len(text) <= 100 => ret.value.v = text
            /\ Len(text) > 100 =>
                  /\ Len(ret.value.v) = 103
                  /\ \A i \in 1 .. 100 : SubSeq(ret.value.v, i, i) = CharAt(i)
                  /\ \A i \in 101 .. 103 : SubSeq(ret.value.v, i, i) = "."

C6_Witness ==
    /\ result.fn = "truncate_text"
    /\ Len(call.text.v) = 150
    /\ Len(result.ret.value.v) = 103

\* C7: a run that printed the header and every item block ends with exit
\* status 0, and its last line is the hint naming page + 1 exactly when the
\* requested page is below total_pages; otherwise no hint is printed.
C7_HintIffMorePages ==
    (pc = "exited" /\ Printed("header") /\ raised = "none") =>
        /\ exit_status = 0
        /\ Len(ItemBlocks) = Len(repos)
        /\ IF args.page < total_pages
           THEN /\ Len(Lines("hint")) = 1
                /\ out[Len(out)] = [kind |-> "hint", next |-> args.page + 1]
           ELSE ~Printed("hint")

C7_Witness ==
    /\ pc = "exited"
    /\ Len(ItemBlocks) = 2
    /\ args.page = 2
    /\ total_pages = 3
    /\ out[Len(out)] = [kind |-> "hint", next |-> 3]

\* C8: the header announces startIndex = (page - 1) * 10 + 1 and
\* endIndex = min(page * 10, total_count).
C8_HeaderRange ==
    \A i \in 1 .. Len(Lines("header")) :
        LET h == Lines("header")[i]
        IN  /\ h.page = args.page
            /\ h.total_count = Get(response.data, "total_count", Num(0)).v
            /\ h.start_index = (h.page - 1) * 10 + 1
            /\ h.end_index <= h.page * 10
            /\ h.end_index <= h.total_count
            /\ h.end_index = h.page * 10 \/ h.end_index = h.total_count

C8_Witness ==
    /\ Len(Lines("header")) = 1
    /\ args.page = 2
    /\ total_count = 25
    /\ Lines("header")[1].start_index = 11
    /\ Lines("header")[1].end_index = 20

\* C9: for every item the loop reaches, the description handed to
\* truncate_text is a string and the value the owner login is looked up on
\* is a mapping, so that no run is ended by an unhandled error.
C9_ItemFieldsWellTyped ==
    /\ raised = "none"
    /\ (pc = "loop" /\ idx <= Len(repos)) =>
          /\ Get(repos[idx], "description", NoDescription).t = "str"
          /\ Get(repos[idx], "owner", Dict(EmptyDict)).t = "dict"

\* C10: whenever the header is printed, 1 <= startIndex <= endIndex <=
\* totalCount, page <= totalPages, and endIndex - startIndex + 1 is the
\* number of items of the page.
C10_HeaderConsistent ==
    \A i \in 1 .. Len(Lines("header")) :
        LET h == Lines("header")[i]
        IN  /\ 1 <= h.start_index
            /\ h.start_index <= h.end_index
            /\ h.end_index <= h.total_count
            /\ h.page <= h.total_pages
            /\ h.end_index - h.start_index + 1 = Len(repos)

====
